---- MODULE Spec2Model ----
(***************************************************************************)
(* Photo tagging and retrieval backend (pinacotheca-backend).              *)
(*                                                                         *)
(*   index-photos  (src/unnamed/part_000): the ingestion handler.  For     *)
(*       every record of an S3 event it detects labels, reads the          *)
(*       object's metadata, merges both label lists and writes one         *)
(*       document to the search index.                                     *)
(*   search-photos (src/unnamed/part_001 and the older src/lf2/index.js):  *)
(*       the query handler.  It sends the query text to Lex, extracts      *)
(*       keywords from the recognised intent's slots, expands them and     *)
(*       searches the index.                                               *)
(*                                                                         *)
(* A JavaScript string is modelled as a sequence of one-character strings, *)
(* a value that may be undefined/null as a sequence of length 0 (absent)   *)
(* or 1 (present).                                                         *)
(***************************************************************************)
EXTENDS Integers, Sequences, FiniteSets, TLC

(***************************************************************************)
(* Strings                                                                 *)
(***************************************************************************)

None == <<>>

Some(x) == <<x>>

IsSome(o) == Len(o) = 1

\* String.prototype.toLowerCase on one character
ToLowerChar(c) ==
  CASE c = "A" -> "a"
    [] c = "B" -> "b"
    [] c = "C" -> "c"
    [] c = "D" -> "d"
    [] c = "G" -> "g"
    [] c = "O" -> "o"
    [] c = "S" -> "s"
    [] c = "T" -> "t"
    [] c = "Y" -> "y"
    [] OTHER -> c

\* String.prototype.toLowerCase
ToLowerCase(s) == [k \in 1..Len(s) |-> ToLowerChar(s[k])]

\* the characters the regular expression class \s and trim() treat as blank
IsSpace(c) == c \in {" ", "\t", "\n"}

RECURSIVE TrimStart(_)
TrimStart(s) ==
  IF s = <<>> THEN <<>>
  ELSE IF IsSpace(Head(s)) THEN TrimStart(Tail(s))
  ELSE s

RECURSIVE TrimEnd(_)
TrimEnd(s) ==
  IF s = <<>> THEN <<>>
  ELSE IF IsSpace(s[Len(s)]) THEN TrimEnd(SubSeq(s, 1, Len(s) - 1))
  ELSE s

\* String.prototype.trim
Trim(s) == TrimEnd(TrimStart(s))

\* String.prototype.split(",") : every comma ends a piece, empty pieces kept
RECURSIVE SplitComma(_)
SplitComma(s) ==
  IF \A k \in 1..Len(s) : s[k] # ","
  THEN <<s>>
  ELSE LET p == CHOOSE k \in 1..Len(s) :
                  s[k] = "," /\ \A j \in 1..(k - 1) : s[j] # ","
       IN  <<SubSeq(s, 1, p - 1)>> \o SplitComma(SubSeq(s, p + 1, Len(s)))

\* Array.prototype.filter on a sequence, for the two tests the code uses
RECURSIVE FilterNonEmpty(_)
FilterNonEmpty(xs) ==
  IF xs = <<>> THEN <<>>
  ELSE IF Len(Head(xs)) > 0
       THEN <<Head(xs)>> \o FilterNonEmpty(Tail(xs))
       ELSE FilterNonEmpty(Tail(xs))

SeqToSet(xs) == {xs[k] : k \in 1..Len(xs)}

\* Array.from(new Set(xs)) : the first occurrence of every element, in order
RECURSIVE Dedup(_)
Dedup(xs) ==
  IF xs = <<>> THEN <<>>
  ELSE LET front == Dedup(SubSeq(xs, 1, Len(xs) - 1))
           last  == xs[Len(xs)]
       IN  IF last \in SeqToSet(front) THEN front ELSE Append(front, last)


(***************************************************************************)
(* index-photos : pure helpers (src/unnamed/part_000)                      *)
(***************************************************************************)

\* JavaScript truthiness of a value that is undefined or a string
Truthy(o) == IsSome(o) /\ Len(o[1]) > 0

\* obj[k] on an object modelled as a function from property names
Prop(obj, k) == IF k \in DOMAIN obj THEN Some(obj[k]) ELSE None

\* record.s3.object.key.replace(/\+/g, ' ')
ReplacePlus(s) == [k \in 1..Len(s) |-> IF s[k] = "+" THEN " " ELSE s[k]]

\* the character a percent escape %h1h2 stands for; None when h1h2 is not
\* a pair of hexadecimal digits (over the characters the raw keys use)
PercentChar(h1, h2) ==
  CASE h1 = "2" /\ h2 = "0" -> Some(" ")
    [] h1 = "2" /\ h2 = "2" -> Some("\"")
    [] h1 = "0" /\ h2 = "0" -> Some("NUL")
    [] h1 = "0" /\ h2 = "2" -> Some("STX")
    [] OTHER -> None

\* decodeURIComponent : None stands for the URIError it throws
RECURSIVE DecodeURIComponent(_)
DecodeURIComponent(s) ==
  IF s = <<>> THEN Some(<<>>)
  ELSE IF Head(s) # "%"
       THEN LET rest == DecodeURIComponent(Tail(s))
            IN  IF IsSome(rest) THEN Some(<<Head(s)>> \o rest[1]) ELSE None
       ELSE IF Len(s) < 3 THEN None
            ELSE LET c    == PercentChar(s[2], s[3])
                     rest == DecodeURIComponent(SubSeq(s, 4, Len(s)))
                 IN  IF IsSome(c) /\ IsSome(rest)
                     THEN Some(<<c[1]>> \o rest[1])
                     ELSE None

\* decodeURIComponent(record.s3.object.key.replace(/\+/g, ' '))
DecodeKey(rawKey) == DecodeURIComponent(ReplacePlus(rawKey))

\* l => l.Name ? l.Name.toLowerCase() : null
LabelName(l) == IF Truthy(l.Name) THEN Some(ToLowerCase(l.Name[1])) ELSE None

\* .filter(Boolean) on a sequence of optional strings
RECURSIVE FilterBoolean(_)
FilterBoolean(os) ==
  IF os = <<>> THEN <<>>
  ELSE IF Truthy(Head(os))
       THEN <<Head(os)[1]>> \o FilterBoolean(Tail(os))
       ELSE FilterBoolean(Tail(os))

\* (detectResp.Labels || []).map(...).filter(Boolean)
RekognitionLabels(Labels) ==
  LET ls == IF IsSome(Labels) THEN Labels[1] ELSE <<>>
  IN  FilterBoolean([k \in 1..Len(ls) |-> LabelName(ls[k])])

\* metadata['customlabels'] || metadata['custom-labels']
RawCustomLabels(metadata) ==
  IF Truthy(Prop(metadata, "customlabels"))
  THEN Prop(metadata, "customlabels")
  ELSE Prop(metadata, "custom-labels")

extractCustomLabelsFromMetadata(Metadata) ==
  IF ~IsSome(Metadata) THEN <<>>
  ELSE LET raw == RawCustomLabels(Metadata[1])
       IN  IF ~Truthy(raw) THEN <<>>
           ELSE LET parts == SplitComma(raw[1])
                IN  FilterNonEmpty([k \in 1..Len(parts) |-> Trim(parts[k])])

\* customLabelsRaw.map(s => s.toLowerCase()).filter(Boolean)
CustomLabels(customLabelsRaw) ==
  FilterNonEmpty([k \in 1..Len(customLabelsRaw) |->
                    ToLowerCase(customLabelsRaw[k])])

\* MergeLabels without the Set
MergeLabelsConcat(rek, custom) == rek \o custom

\* Array.from(new Set([...rekognitionLabels, ...customLabels]))
MergeLabels(rek, custom) == Dedup(rek \o custom)

\* res.statusCode >= 200 && res.statusCode < 300
IndexStatusOk(statusCode) == statusCode >= 200 /\ statusCode < 300

InvalidImage == <<"InvalidImageFormatException">>

\* CatchStatus testing err.Code alone
CatchStatusCodeOnly(e) ==
  IF e.Code = InvalidImage THEN "SKIPPED_INVALID_IMAGE" ELSE "ERROR"

\* the status the catch block records for a thrown error
CatchStatus(e) ==
  IF e.Code = InvalidImage \/ e.name = InvalidImage
  THEN "SKIPPED_INVALID_IMAGE"
  ELSE "ERROR"


(***************************************************************************)
(* State                                                                   *)
(***************************************************************************)

VARIABLES
  OPENSEARCH_ENDPOINT,  \* process.env.OPENSEARCH_ENDPOINT : None when unset
  LEX_BOT_ID,           \* process.env.LEX_BOT_ID          : None when unset
  LEX_BOT_ALIAS_ID,     \* process.env.LEX_BOT_ALIAS_ID    : None when unset
  index,                \* the documents the search index holds, in write order
  \* ---- index-photos, one invocation
  records,              \* event.Records
  ipc,                  \* where the handler is
  i,                    \* position of the for loop in records
  bucket, key, eventTime,
  rekognitionLabels, customLabels, doc,
  err,                  \* the error the try block threw
  results,              \* the per-record status list
  outcomes,             \* what the collaborators answered for each record begun
  \* ---- search-photos, one invocation
  lambda,               \* which of the two handlers is deployed
  q,                    \* the request's query string
  qpc,                  \* where the handler is
  resp,                 \* the RecognizeText response
  rawKeywords, searchTerms,
  response,             \* what the handler returned
  lexCalls,             \* RecognizeText commands sent
  searchRequests        \* HTTP requests sent to the index's _search

configVars == <<OPENSEARCH_ENDPOINT, LEX_BOT_ID, LEX_BOT_ALIAS_ID>>

ingestVars == <<records, ipc, i, bucket, key, eventTime, rekognitionLabels,
                customLabels, doc, err, results, outcomes>>

queryVars == <<lambda, q, qpc, resp, rawKeywords, searchTerms, response,
               lexCalls, searchRequests>>

vars == <<configVars, index, ingestVars, queryVars>>

(***************************************************************************)
(* index-photos : exports.handler (src/unnamed/part_000)                   *)
(***************************************************************************)

NoOutcome == [detect |-> "none", head |-> "none", index |-> "none", statusCode |-> 0]

\* the block-scoped constants of one loop iteration, when none is running
ClearLocals ==
  /\ bucket' = None
  /\ key' = None
  /\ eventTime' = None
  /\ rekognitionLabels' = <<>>
  /\ customLabels' = <<>>
  /\ doc' = None
  /\ err' = None

SetOutcome(field, value) ==
  outcomes' = [outcomes EXCEPT ![i] = [@ EXCEPT ![field] = value]]

\* for (const record of records) : lines 92-99, then the DetectLabels request.
\* decodeURIComponent is outside the try block: its URIError rejects the
\* handler's promise and the statuses collected so far are lost.
IngestNextRecord ==
  /\ ipc = "loop"
  /\ i <= Len(records)
  /\ LET record  == records[i]
         decoded == DecodeKey(record.rawKey)
     IN  IF ~IsSome(decoded)
         THEN /\ ipc' = "thrown"
              /\ UNCHANGED <<bucket, key, eventTime, outcomes>>
         ELSE /\ bucket' = Some(record.bucket)
              /\ key' = decoded
              /\ eventTime' = IF IsSome(record.eventTime)
                              THEN record.eventTime ELSE Some("now")
              /\ outcomes' = Append(outcomes, NoOutcome)
              /\ ipc' = "detect"
  /\ UNCHANGED <<records, i, rekognitionLabels, customLabels, doc, err, results>>
  /\ UNCHANGED <<configVars, index, queryVars>>

\* return { statusCode: 200, body: JSON.stringify(results) }
IngestReturn ==
  /\ ipc = "loop"
  /\ i > Len(records)
  /\ ipc' = "returned"
  /\ UNCHANGED <<records, i, bucket, key, eventTime, rekognitionLabels,
                 customLabels, doc, err, results, outcomes>>
  /\ UNCHANGED <<configVars, index, queryVars>>

\* the shapes of the error Rekognition reports an unreadable image with
InvalidImageErrors ==
  {[name |-> InvalidImage, Code |-> None],
   [name |-> <<"Error">>, Code |-> InvalidImage]}

\* await rekognition.send(new DetectLabelsCommand(...)) answers : lines 114-123,
\* then the HeadObject request
IngestDetectRespond ==
  /\ ipc = "detect"
  /\ LET image == records[i].image
     IN  \/ /\ image.valid
            /\ rekognitionLabels' = RekognitionLabels(image.Labels)
            /\ SetOutcome("detect", "ok")
            /\ ipc' = "head"
            /\ UNCHANGED err
         \/ /\ ~image.valid
            /\ \E e \in InvalidImageErrors : err' = Some(e)
            /\ SetOutcome("detect", "invalid")
            /\ ipc' = "catch"
            /\ UNCHANGED rekognitionLabels
         \/ /\ err' = Some([name |-> <<"ThrottlingException">>, Code |-> None])
            /\ SetOutcome("detect", "error")
            /\ ipc' = "catch"
            /\ UNCHANGED rekognitionLabels
  /\ UNCHANGED <<records, i, bucket, key, eventTime, customLabels, doc, results>>
  /\ UNCHANGED <<configVars, index, queryVars>>

\* await s3.send(new HeadObjectCommand(...)) answers : lines 126-153, then
\* indexDocumentToOpenSearch up to the request it sends (lines 16-41, 65-66)
IngestHeadRespond ==
  /\ ipc = "head"
  /\ \/ LET custom == CustomLabels(
                        extractCustomLabelsFromMetadata(records[i].Metadata))
            merged == MergeLabels(rekognitionLabels, custom)
        IN  /\ customLabels' = custom
            /\ doc' = Some([objectKey |-> key[1], bucket |-> bucket[1],
                            createdTimestamp |-> eventTime[1],
                            labels |-> merged])
            /\ IF ~Truthy(OPENSEARCH_ENDPOINT)
               THEN /\ err' = Some([name |-> <<"Error">>, Code |-> None])
                    /\ outcomes' = [outcomes EXCEPT ![i] =
                                      [@ EXCEPT !.head = "ok", !.index = "noendpoint"]]
                    /\ ipc' = "catch"
               ELSE /\ SetOutcome("head", "ok")
                    /\ ipc' = "index"
                    /\ UNCHANGED err
     \/ /\ err' = Some([name |-> <<"NotFound">>, Code |-> None])
        /\ SetOutcome("head", "error")
        /\ ipc' = "catch"
        /\ UNCHANGED <<customLabels, doc>>
  /\ UNCHANGED <<records, i, bucket, key, eventTime, rekognitionLabels, results>>
  /\ UNCHANGED <<configVars, index, queryVars>>

\* the HTTP status codes the index answers a write with
IndexStatusCodes == {199, 200, 299, 300}

\* the index answers the POST /<index>/_doc, or the request fails :
\* lines 43-63, then lines 157-162
IngestIndexRespond ==
  /\ ipc = "index"
  /\ \/ \E statusCode \in IndexStatusCodes :
          /\ outcomes' = [outcomes EXCEPT ![i] =
                            [@ EXCEPT !.index = "response", !.statusCode = statusCode]]
          /\ IF IndexStatusOk(statusCode)
             THEN /\ index' = Append(index, doc[1])
                  /\ results' = Append(results, [key |-> key[1], status |-> "OK"])
                  /\ i' = i + 1
                  /\ ipc' = "loop"
                  /\ ClearLocals
             ELSE /\ err' = Some([name |-> <<"Error">>, Code |-> None])
                  /\ ipc' = "catch"
                  /\ UNCHANGED <<index, results, i, bucket, key, eventTime,
                                 rekognitionLabels, customLabels, doc>>
     \/ /\ err' = Some([name |-> <<"Error">>, Code |-> None])
        /\ SetOutcome("index", "neterr")
        /\ ipc' = "catch"
        /\ UNCHANGED <<index, results, i, bucket, key, eventTime,
                       rekognitionLabels, customLabels, doc>>
  /\ UNCHANGED records
  /\ UNCHANGED <<configVars, queryVars>>

\* catch (err) { ... } : lines 164-172
IngestCatch ==
  /\ ipc = "catch"
  /\ results' = Append(results, [key |-> key[1], status |-> CatchStatus(err[1])])
  /\ i' = i + 1
  /\ ipc' = "loop"
  /\ ClearLocals
  /\ UNCHANGED <<records, outcomes>>
  /\ UNCHANGED <<configVars, index, queryVars>>

NextIngest ==
  \/ IngestNextRecord
  \/ IngestReturn
  \/ IngestDetectRespond
  \/ IngestHeadRespond
  \/ IngestIndexRespond
  \/ IngestCatch


(***************************************************************************)
(* search-photos : pure helpers (src/unnamed/part_001, src/lf2/index.js)   *)
(***************************************************************************)

\* the characters the regular expression class \w matches
IsWordChar(c) ==
  c \in {"a", "b", "c", "d", "e", "g", "i", "k", "l", "n", "o", "p", "r", "s",
         "t", "u", "w", "y", "A", "B", "C", "D", "G", "O", "S", "T", "Y",
         "0", "2", "_"}

\* String.prototype.endsWith
EndsWith(w, suffix) ==
  /\ Len(w) >= Len(suffix)
  /\ SubSeq(w, Len(w) - Len(suffix) + 1, Len(w)) = suffix

\* w.slice(0, -n)
SliceOff(w, n) == SubSeq(w, 1, Len(w) - n)

\* Set.prototype.add on a set kept in insertion order
SetAdd(out, x) == IF x \in SeqToSet(out) THEN out ELSE Append(out, x)

\* AddSingular without the length tests
AddSingularAnyLength(out, w) ==
  IF EndsWith(w, <<"i", "e", "s">>)
  THEN SetAdd(out, SliceOff(w, 3) \o <<"y">>)
  ELSE IF EndsWith(w, <<"e", "s">>)
       THEN SetAdd(out, SliceOff(w, 2))
       ELSE IF EndsWith(w, <<"s">>)
            THEN SetAdd(out, SliceOff(w, 1))
            ELSE out

\* the "plural -> singular" block : lines 40-50
AddSingular(out, w) ==
  IF EndsWith(w, <<"i", "e", "s">>) /\ Len(w) > 3
  THEN SetAdd(out, SliceOff(w, 3) \o <<"y">>)
  ELSE IF EndsWith(w, <<"e", "s">>) /\ Len(w) > 3
       THEN SetAdd(out, SliceOff(w, 2))
       ELSE IF EndsWith(w, <<"s">>) /\ Len(w) > 3
            THEN SetAdd(out, SliceOff(w, 1))
            ELSE out

\* the "singular -> plural" block : lines 52-60
AddPlural(out, w) ==
  IF ~EndsWith(w, <<"s">>)
  THEN LET withIes == IF EndsWith(w, <<"y">>) /\ Len(w) > 1
                      THEN SetAdd(out, SliceOff(w, 1) \o <<"i", "e", "s">>)
                      ELSE out
       IN  SetAdd(withIes, w \o <<"s">>)
  ELSE out

\* one iteration of the for loop : lines 34-60
ExpandWord(out, wRaw) ==
  IF Len(wRaw) = 0 THEN out
  ELSE LET w == Trim(ToLowerCase(wRaw))
       IN  IF Len(w) = 0 THEN out
           ELSE AddPlural(AddSingular(SetAdd(out, w), w), w)

RECURSIVE ExpandFrom(_, _)
ExpandFrom(out, words) ==
  IF words = <<>> THEN out
  ELSE ExpandFrom(ExpandWord(out, Head(words)), Tail(words))

expandSingularPlural(words) == ExpandFrom(<<>>, words)

\* whether /\band\b/ matches at position p of s
\* "and" at p with no word boundary asked for
AndAtAnywhere(s, p) ==
  /\ p + 2 <= Len(s)
  /\ SubSeq(s, p, p + 2) = <<"a", "n", "d">>

AndAt(s, p) ==
  /\ p + 2 <= Len(s)
  /\ SubSeq(s, p, p + 2) = <<"a", "n", "d">>
  /\ (p = 1 \/ ~IsWordChar(s[p - 1]))
  /\ (p + 3 > Len(s) \/ ~IsWordChar(s[p + 3]))

\* .replace(/\band\b/g, " ") from position p on
RECURSIVE ReplaceAndFrom(_, _)
ReplaceAndFrom(s, p) ==
  IF p > Len(s) THEN <<>>
  ELSE IF AndAt(s, p) THEN <<" ">> \o ReplaceAndFrom(s, p + 3)
  ELSE <<s[p]>> \o ReplaceAndFrom(s, p + 1)

ReplaceAnd(s) == ReplaceAndFrom(s, 1)

\* the separator class [,\s]
IsSeparator(c) == c = "," \/ IsSpace(c)

\* .split(/[,\s]+/) : the pieces between maximal runs of separators
RECURSIVE SplitRuns(_)
SplitRuns(s) ==
  IF \A k \in 1..Len(s) : ~IsSeparator(s[k])
  THEN <<s>>
  ELSE LET p  == CHOOSE k \in 1..Len(s) :
                   IsSeparator(s[k]) /\ \A j \in 1..(k - 1) : ~IsSeparator(s[j])
           p2 == IF \A k \in p..Len(s) : IsSeparator(s[k])
                 THEN Len(s) + 1
                 ELSE CHOOSE k \in p..Len(s) :
                        ~IsSeparator(s[k]) /\ \A j \in p..(k - 1) : IsSeparator(s[j])
       IN  <<SubSeq(s, 1, p - 1)>> \o SplitRuns(SubSeq(s, p2, Len(s)))

\* remove "and", split on spaces/commas, trim, drop empties, deduplicate :
\* part_001 lines 71-79, lf2/index.js lines 50-56
Tokens(lowered) ==
  LET parts == SplitRuns(ReplaceAnd(lowered))
  IN  Dedup(FilterNonEmpty([k \in 1..Len(parts) |-> Trim(parts[k])]))

tokenizeSlotValue(raw) ==
  IF Len(raw) = 0 THEN <<>> ELSE Tokens(ToLowerCase(raw))

\* slot.value.interpretedValue ||
\*   (Array.isArray(slot.value.resolvedValues) && slot.value.resolvedValues[0]) ||
\*   slot.value.originalValue
SlotResolved(value) ==
  IF Truthy(value.interpretedValue) THEN value.interpretedValue
  ELSE IF /\ IsSome(value.resolvedValues)
          /\ Len(value.resolvedValues[1]) > 0
          /\ Len(value.resolvedValues[1][1]) > 0
       THEN Some(value.resolvedValues[1][1])
       ELSE value.originalValue

\* the tokens one slot contributes : part_001 lines 110-121 and 124-134
SlotTokens(slot) ==
  IF ~IsSome(slot) THEN <<>>
  ELSE IF ~IsSome(slot[1].value) THEN <<>>
  ELSE LET v == SlotResolved(slot[1].value[1])
       IN  IF Truthy(v) /\ Len(Trim(v[1])) > 0
           THEN tokenizeSlotValue(v[1])
           ELSE <<>>

\* resp.sessionState && resp.sessionState.intent
IntentOf(r) ==
  IF IsSome(r.sessionState) THEN r.sessionState[1].intent ELSE None

\* intent.slots || {} , then slots[name]
SlotOf(intent, name) ==
  IF IsSome(intent.slots) THEN intent.slots[1][name] ELSE None

SearchIntent == <<"SearchIntent">>

Returned(keywords) == [threw |-> FALSE, keywords |-> keywords]

Threw == [threw |-> TRUE, keywords |-> <<>>]

\* the fallback to the legacy slot : part_001 line 124
UseLegacySlot(collected) == Len(collected) = 0

\* getKeywordsFromLex after the response arrived : part_001 lines 97-139
KeywordsFromResponse(r) ==
  LET intent == IntentOf(r)
  IN  IF ~IsSome(intent) \/ intent[1].name # SearchIntent
      THEN Returned(<<>>)
      ELSE LET primary   == SlotTokens(SlotOf(intent[1], "keyword1"))
                              \o SlotTokens(SlotOf(intent[1], "keyword2"))
               collected == IF UseLegacySlot(primary)
                            THEN primary \o SlotTokens(SlotOf(intent[1], "keyword"))
                            ELSE primary
           IN  Returned(Dedup(collected))

\* getKeywordsFromLex after the response arrived : lf2/index.js lines 32-56.
\* Line 32 reads resp.sessionState.intent.name before the intent is tested:
\* a TypeError when the session state or the intent is missing.
KeywordsFromResponseLf2(r) ==
  IF ~IsSome(r.sessionState) THEN Threw
  ELSE IF ~IsSome(r.sessionState[1].intent) THEN Threw
  ELSE LET intent == r.sessionState[1].intent[1]
           slot   == SlotOf(intent, "keyword")
       IN  IF intent.name # SearchIntent THEN Returned(<<>>)
           ELSE IF ~IsSome(slot) THEN Returned(<<>>)
           ELSE IF ~IsSome(slot[1].value) THEN Returned(<<>>)
           ELSE IF ~Truthy(slot[1].value[1].interpretedValue) THEN Returned(<<>>)
           ELSE Returned(Tokens(ToLowerCase(slot[1].value[1].interpretedValue[1])))

\* LexConfigured testing the bot identifier alone
LexConfiguredBotIdOnly(botId, botAliasId) == Truthy(botId)

\* !LEX_BOT_ID || !LEX_BOT_ALIAS_ID is false
LexConfigured(botId, botAliasId) == Truthy(botId) /\ Truthy(botAliasId)

\* the start of searchOpenSearch : part_001 lines 145-150, lf2 lines 62-67
SearchStep(endpoint, keywords) ==
  IF ~Truthy(endpoint) THEN "reject"
  ELSE IF Len(keywords) = 0 THEN "resolve-empty"
  ELSE "send"

\* the documents a terms query over the labels field matches
SearchHits(docs, keywords) ==
  SelectSeq(docs, LAMBDA d : SeqToSet(d.labels) \cap SeqToSet(keywords) # {})

\* encodeURIComponent on one character
EncodeChar(c) ==
  CASE c = " " -> <<"%", "2", "0">>
    [] c = "\"" -> <<"%", "2", "2">>
    [] c = "NUL" -> <<"%", "0", "0">>
    [] c = "STX" -> <<"%", "0", "2">>
    [] c = "%" -> <<"%", "2", "5">>
    [] c = "+" -> <<"%", "2", "B">>
    [] OTHER -> <<c>>

RECURSIVE EncodeURIComponent(_)
EncodeURIComponent(s) ==
  IF s = <<>> THEN <<>>
  ELSE EncodeChar(Head(s)) \o EncodeURIComponent(Tail(s))

\* hits.map(h => ...) : part_001 lines 250-263
MapHit(h) ==
  [objectKey |-> h.objectKey, bucket |-> h.bucket, labels |-> h.labels,
   url |-> IF Len(h.bucket) > 0 /\ Len(h.objectKey) > 0
           THEN Some([host |-> h.bucket, path |-> EncodeURIComponent(h.objectKey)])
           ELSE None]

MapHits(hits) == [k \in 1..Len(hits) |-> MapHit(hits[k])]

\* makeResponse(200, results)
Ok(body) == [statusCode |-> 200, body |-> body, error |-> None]

\* makeResponse(500, { message: "Internal server error", error: err.message })
InternalServerError(message) ==
  [statusCode |-> 500, body |-> <<>>, error |-> Some(message)]


(***************************************************************************)
(* search-photos : exports.handler                                         *)
(***************************************************************************)

\* (event.queryStringParameters && event.queryStringParameters.q) || event.q || ""
QueryOf(event) ==
  IF IsSome(event.queryStringParameters) /\ Truthy(event.queryStringParameters[1].q)
  THEN event.queryStringParameters[1].q[1]
  ELSE IF Truthy(event.q) THEN event.q[1]
  ELSE <<>>

\* !q || q.trim().length === 0
IsBlankQuery(text) == Len(text) = 0 \/ Len(Trim(text)) = 0

Finish(r) ==
  /\ response' = Some(r)
  /\ qpc' = "done"

\* the handler up to its first await : part_001 lines 221-237 and 84-96,
\* lf2/index.js lines 131-157 and 19-31
QBegin ==
  /\ qpc = "start"
  /\ IF IsBlankQuery(QueryOf(q))
     THEN /\ Finish(Ok(<<>>))
          /\ UNCHANGED lexCalls
     ELSE IF ~LexConfigured(LEX_BOT_ID, LEX_BOT_ALIAS_ID)
          THEN /\ Finish(InternalServerError("Lex bot environment variables not set"))
               /\ UNCHANGED lexCalls
          ELSE /\ lexCalls' = lexCalls + 1
               /\ qpc' = "lex"
               /\ UNCHANGED response
  /\ UNCHANGED <<lambda, q, resp, rawKeywords, searchTerms, searchRequests>>
  /\ UNCHANGED <<configVars, index, ingestVars>>

\* the slot values Lex may fill a slot with
Str_dog == <<"d", "o", "g">>

Str_cat == <<"c", "a", "t">>

Str_owl == <<"o", "w", "l">>

Str_cats_and_dogs ==
  <<"C", "a", "t", "s", " ", "a", "n", "d", " ", "d", "o", "g", "s">>

SlotValue(interpreted, resolved, original) ==
  [interpretedValue |-> interpreted, resolvedValues |-> resolved,
   originalValue |-> original]

SlotValues ==
  { SlotValue(Some(Str_dog), None, None),
    SlotValue(None, Some(<<Str_cat>>), Some(Str_owl)),
    SlotValue(Some(<<>>), None, Some(Str_owl)),
    SlotValue(Some(<<" ">>), Some(<<Str_cat>>), None),
    SlotValue(None, Some(<<>>), None),
    SlotValue(Some(Str_cats_and_dogs), None, None) }

\* a slot is missing, has no value, or has one of the values
Slots == {None, Some([value |-> None])}
           \cup {Some([value |-> Some(v)]) : v \in SlotValues}

SlotNames == {"keyword1", "keyword2", "keyword"}

Intents ==
  {[name |-> <<"FallbackIntent">>, slots |-> None],
   [name |-> SearchIntent, slots |-> None]}
    \cup {[name |-> SearchIntent, slots |-> Some(s)] : s \in [SlotNames -> Slots]}

\* the responses RecognizeText may give
LexResponses ==
  {[sessionState |-> None], [sessionState |-> Some([intent |-> None])]}
    \cup {[sessionState |-> Some([intent |-> Some(n)])] : n \in Intents}

GetKeywords(r) ==
  IF lambda = "lf2" THEN KeywordsFromResponseLf2(r) ELSE KeywordsFromResponse(r)

\* lexClient.send answers with a failure or with one of the responses, and
\* getKeywordsFromLex runs to its return
LexAnswers(responses) ==
  /\ qpc = "lex"
  /\ \/ /\ Finish(InternalServerError("RecognizeText failed"))
        /\ UNCHANGED <<resp, rawKeywords>>
     \/ \E r \in responses :
          /\ resp' = Some(r)
          /\ IF GetKeywords(r).threw
             THEN /\ Finish(InternalServerError("TypeError"))
                  /\ UNCHANGED rawKeywords
             ELSE /\ rawKeywords' = GetKeywords(r).keywords
                  /\ qpc' = "keywords"
                  /\ UNCHANGED response
  /\ UNCHANGED <<lambda, q, searchTerms, lexCalls, searchRequests>>
  /\ UNCHANGED <<configVars, index, ingestVars>>

QLexRespond == LexAnswers(LexResponses)

\* the terms the handler searches for : part_001 line 241 expands the
\* keywords, lf2/index.js searches for the keywords as they are
SearchTermsOf(keywords) ==
  IF lambda = "lf2" THEN keywords ELSE expandSingularPlural(keywords)

\* part_001 lines 241-246, lf2/index.js lines 160-167
QSearchTerms ==
  /\ qpc = "keywords"
  /\ searchTerms' = SearchTermsOf(rawKeywords)
  /\ IF Len(searchTerms') = 0
     THEN Finish(Ok(<<>>))
     ELSE /\ qpc' = "searchcall"
          /\ UNCHANGED response
  /\ UNCHANGED <<lambda, q, resp, rawKeywords, lexCalls, searchRequests>>
  /\ UNCHANGED <<configVars, index, ingestVars>>

\* searchOpenSearch up to the request it sends : part_001 lines 143-216
QSearchSend ==
  /\ qpc = "searchcall"
  /\ LET step == SearchStep(OPENSEARCH_ENDPOINT, searchTerms)
     IN  IF step = "reject"
         THEN /\ Finish(InternalServerError("OPENSEARCH_ENDPOINT not set"))
              /\ UNCHANGED searchRequests
         ELSE IF step = "resolve-empty"
              THEN /\ Finish(Ok(MapHits(<<>>)))
                   /\ UNCHANGED searchRequests
              ELSE /\ searchRequests' = searchRequests + 1
                   /\ qpc' = "search"
                   /\ UNCHANGED response
  /\ UNCHANGED <<lambda, q, resp, rawKeywords, searchTerms, lexCalls>>
  /\ UNCHANGED <<configVars, index, ingestVars>>

\* the HTTP status codes the index answers a search with
SearchStatusCodes == {200, 503}

\* the index answers the search, or the request fails : part_001 lines
\* 187-213 and 250-265
QSearchRespond ==
  /\ qpc = "search"
  /\ \/ Finish(InternalServerError("HTTPS search error"))
     \/ \E statusCode \in SearchStatusCodes :
          IF IndexStatusOk(statusCode)
          THEN \/ Finish(Ok(MapHits(SearchHits(index, searchTerms))))
               \/ Finish(Ok(MapHits(<<>>)))
               \/ Finish(InternalServerError("Unexpected token in JSON"))
          ELSE Finish(InternalServerError("OpenSearch search failed"))
  /\ UNCHANGED <<lambda, q, resp, rawKeywords, searchTerms, lexCalls, searchRequests>>
  /\ UNCHANGED <<configVars, index, ingestVars>>

NextQuery ==
  \/ QBegin
  \/ QLexRespond
  \/ QSearchTerms
  \/ QSearchSend
  \/ QSearchRespond


(***************************************************************************)
(* Initial states                                                          *)
(***************************************************************************)

\* the largest batch of records one S3 event carries
MaxBatch == 3

\* the most labels one DetectLabels response carries
MaxLabels == 2

\* the longest keyword, and the most keywords, given to the expansion
MaxWordLen == 4

MaxWords == 2

MaxSlotLen == 4

SeqsUpTo(S, n) == UNION {[1..m -> S] : m \in 0..n}

Configured == Some(<<"s", "e", "t">>)

Settings == {None, Configured}

Str_Dog == <<"D", "o", "g">>

Str_Cat == <<"C", "a", "t">>

Str_puppy_cat == <<"p", "u", "p", "p", "y", ",", " ", "c", "a", "t">>

Bucket1 == <<"b", "1">>

Image(valid, Labels) == [valid |-> valid, Labels |-> Labels]

Named(name) == [Name |-> name]

Record(rawKey, time, image, Metadata) ==
  [bucket |-> Bucket1, rawKey |-> rawKey, eventTime |-> time, image |-> image,
   Metadata |-> Metadata]

\* the upload records of the batches: a labelled photo, a file that is no
\* image, a key that is no valid percent-encoding, an unlabelled photo
SampleRecords ==
  { Record(<<"k">>, Some("t1"),
           Image(TRUE, Some(<<Named(Some(Str_Dog)), Named(Some(Str_Cat))>>)),
           Some("customlabels" :> Str_puppy_cat)),
    Record(<<"k", "+">>, None, Image(FALSE, None), None),
    Record(<<"%", "k">>, Some("t1"), Image(TRUE, None), None),
    Record(<<"k", "%", "2", "0">>, Some("t1"), Image(TRUE, None), Some(<<>>)) }

NoRequest ==
  /\ lambda = "part_001"
  /\ q = [queryStringParameters |-> None, q |-> None]
  /\ qpc = "idle"
  /\ resp = None
  /\ rawKeywords = <<>>
  /\ searchTerms = <<>>
  /\ response = None
  /\ lexCalls = 0
  /\ searchRequests = 0

NoEvent ==
  /\ records = <<>>
  /\ ipc = "idle"
  /\ i = 1
  /\ bucket = None
  /\ key = None
  /\ eventTime = None
  /\ rekognitionLabels = <<>>
  /\ customLabels = <<>>
  /\ doc = None
  /\ err = None
  /\ results = <<>>
  /\ outcomes = <<>>

\* the handler is invoked with an event : line 84-90
IngestInvoked(batches) ==
  /\ records \in batches
  /\ ipc = "loop"
  /\ i = 1
  /\ bucket = None
  /\ key = None
  /\ eventTime = None
  /\ rekognitionLabels = <<>>
  /\ customLabels = <<>>
  /\ doc = None
  /\ err = None
  /\ results = <<>>
  /\ outcomes = <<>>

\* an S3 event arrives at index-photos
InitIngest ==
  /\ OPENSEARCH_ENDPOINT \in Settings
  /\ LEX_BOT_ID = Configured
  /\ LEX_BOT_ALIAS_ID = Configured
  /\ index = <<>>
  /\ IngestInvoked(SeqsUpTo(SampleRecords, MaxBatch))
  /\ NoRequest

Query(text) == [queryStringParameters |-> Some([q |-> text]), q |-> None]

\* the requests: /search?q=cats, ?q=%20, no parameter at all, and a direct
\* invocation with event.q
SampleEvents ==
  { Query(Some(<<"c", "a", "t", "s">>)),
    Query(Some(<<" ">>)),
    [queryStringParameters |-> None, q |-> None],
    [queryStringParameters |-> Some([q |-> None]), q |-> Some(Str_dog)] }

DocDog ==
  [objectKey |-> <<"k">>, bucket |-> Bucket1, createdTimestamp |-> "t1",
   labels |-> <<Str_dog, Str_cat>>]

SampleIndexes == {<<>>, <<DocDog>>}

\* a request arrives at search-photos
InitQuery ==
  /\ OPENSEARCH_ENDPOINT \in Settings
  /\ LEX_BOT_ID \in Settings
  /\ LEX_BOT_ALIAS_ID \in Settings
  /\ index \in SampleIndexes
  /\ NoEvent
  /\ lambda \in {"part_001", "lf2"}
  /\ q \in SampleEvents
  /\ qpc = "start"
  /\ resp = None
  /\ rawKeywords = <<>>
  /\ searchTerms = <<>>
  /\ response = None
  /\ lexCalls = 0
  /\ searchRequests = 0

Init == InitIngest \/ InitQuery

Next == NextIngest \/ NextQuery

\* either handler, invoked once
Spec == Init /\ [][Next]_vars


\* the names DetectLabels may give a label, and the labels of one response
LabelNames ==
  { None, Some(<<>>), Some(Str_Dog), Some(Str_dog), Some(<<" ", "D", "o", "g">>),
    Some(Str_Cat), Some(<<" ">>) }

LabelLists ==
  {None} \cup {Some([k \in 1..Len(ns) |-> Named(ns[k])]) :
                 ns \in SeqsUpTo(LabelNames, MaxLabels)}

\* the metadata keys HeadObject may return, and the values stored under them
MetadataKeys == {"customlabels", "custom-labels", "CustomLabels", "Custom-Labels", "owner"}

CustomLabelStrings ==
  { <<>>,
    Str_dog,
    <<"a", ",", " ", "B", " ", ",", " ", " ", "c">>,
    <<" ", "D", "o", "g", " ", ",", ",", "c", "a", "t">>,
    <<" ", ",">> }

Metadatas ==
  {None, Some(<<>>)}
    \cup {Some(k :> v) : k \in MetadataKeys, v \in CustomLabelStrings}
    \cup {Some(("customlabels" :> v) @@ ("custom-labels" :> Str_cat)) :
            v \in {<<>>, Str_dog}}

\* one upload whose image and metadata range over the label inputs
InitLabels ==
  /\ OPENSEARCH_ENDPOINT \in Settings
  /\ LEX_BOT_ID = Configured
  /\ LEX_BOT_ALIAS_ID = Configured
  /\ index = <<>>
  /\ IngestInvoked({<<Record(rawKey, Some("t1"), Image(TRUE, Labels), Metadata)>> :
                      rawKey \in {<<"k">>, <<"%">>},
                      Labels \in LabelLists, Metadata \in Metadatas}
                     \cup {<<Record(<<"k">>, None, Image(FALSE, None), None)>>})
  /\ NoRequest

\* index-photos over the label inputs
SpecLabels == InitLabels /\ [][NextIngest]_vars


\* the letters the keywords given to the expansion are spelled with
ExpandLetters == {"b", "e", "i", "s", "y"}

Str_cats == <<"c", "a", "t", "s">>

Str_baby == <<"b", "a", "b", "y">>

Str_babies == <<"b", "a", "b", "i", "e", "s">>

Str_bus == <<"b", "u", "s">>

Str_buses == <<"b", "u", "s", "e", "s">>

SampleWords == {Str_cat, Str_cats, Str_baby, Str_babies, Str_bus, Str_buses}

NoDuplicates(xs) == \A a, b \in 1..Len(xs) : a # b => xs[a] # xs[b]

\* the keyword lists: nothing, every single keyword of up to MaxWordLen letters,
\* and every duplicate-free list of up to MaxWords sample words
WordLists ==
  {<<w>> : w \in UNION {[1..n -> ExpandLetters] : n \in 1..MaxWordLen}}
    \cup {ws \in SeqsUpTo(SampleWords, MaxWords) : NoDuplicates(ws)}

RECURSIVE JoinWithSpaces(_)
JoinWithSpaces(ws) ==
  IF ws = <<>> THEN <<>>
  ELSE IF Len(ws) = 1 THEN ws[1]
  ELSE ws[1] \o <<" ">> \o JoinWithSpaces(Tail(ws))

\* a RecognizeText response whose keyword1 slot spells the keywords
ResponseWith(ws) ==
  [sessionState |-> Some([intent |-> Some(
     [name |-> SearchIntent,
      slots |-> Some([n \in SlotNames |->
                 IF n = "keyword1" /\ ws # <<>>
                 THEN Some([value |-> Some(SlotValue(Some(JoinWithSpaces(ws)), None, None))])
                 ELSE None])])])]

\* search-photos (part_001) after getKeywordsFromLex returned the keywords
InitExpand ==
  /\ OPENSEARCH_ENDPOINT \in Settings
  /\ LEX_BOT_ID = Configured
  /\ LEX_BOT_ALIAS_ID = Configured
  /\ index = <<DocDog>>
  /\ NoEvent
  /\ lambda = "part_001"
  /\ q = Query(Some(Str_cats))
  /\ qpc = "keywords"
  /\ rawKeywords \in WordLists
  /\ resp = Some(ResponseWith(rawKeywords))
  /\ searchTerms = <<>>
  /\ response = None
  /\ lexCalls = 1
  /\ searchRequests = 0

NextExpand == QSearchTerms \/ QSearchSend \/ QSearchRespond

\* the expansion step of search-photos over the keyword lists
SpecExpand == InitExpand /\ [][NextExpand]_vars

\* searchOpenSearch called with a list of keywords
InitSearchStep ==
  /\ OPENSEARCH_ENDPOINT \in Settings
  /\ LEX_BOT_ID = Configured
  /\ LEX_BOT_ALIAS_ID = Configured
  /\ index \in SampleIndexes
  /\ NoEvent
  /\ lambda \in {"part_001", "lf2"}
  /\ q = Query(Some(Str_cats))
  /\ qpc = "searchcall"
  /\ rawKeywords = <<>>
  /\ resp = None
  /\ searchTerms \in {ws \in SeqsUpTo(SampleWords \cup {Str_dog}, MaxWords) :
                        NoDuplicates(ws)}
  /\ response = None
  /\ lexCalls = 0
  /\ searchRequests = 0

NextSearchStep == QSearchSend \/ QSearchRespond

\* the search step on its own, over the keyword lists
SpecSearchStep == InitSearchStep /\ [][NextSearchStep]_vars

\* the characters of a slot string: letters of both cases, the separators
\* of /[,\s]+/, and a character that is neither a separator nor in \w
SlotChars == {"a", "n", "d", "A", " ", ",", "-"}

Str_sandy == <<"s", "a", "n", "d", "y">>

Str_android == <<"a", "n", "d", "r", "o", "i", "d">>

Str_Sandy_and_android == <<"S", "a", "n", "d", "y", ",", " ", "a", "n", "d", "\t">> \o Str_android

Str_d_and_d ==
  <<"d", "-", "a", "n", "d", "-", "d", ",", "D", "-", "A", "n", "D", "-", "D">>

\* the slot strings: every string of up to MaxSlotLen characters, and some
\* longer phrases
SlotStrings ==
  UNION {[1..n -> SlotChars] : n \in 0..MaxSlotLen}
    \cup {Str_cats_and_dogs, Str_sandy, Str_android, Str_Sandy_and_android,
          Str_d_and_d}

\* the slot whose interpreted value the handler tokenizes : keyword1 in
\* part_001 (lines 113-115), keyword in lf2/index.js (line 39)
TokenizedSlot == IF lambda = "lf2" THEN "keyword" ELSE "keyword1"

\* the RecognizeText responses whose slot holds one of the slot strings
SlotStringResponses ==
  {[sessionState |-> Some([intent |-> Some(
      [name |-> SearchIntent,
       slots |-> Some([n \in SlotNames |->
                  IF n = TokenizedSlot
                  THEN Some([value |-> Some(SlotValue(Some(s), None, None))])
                  ELSE None])])])] : s \in SlotStrings}

QLexRespondSlot == LexAnswers(SlotStringResponses)

\* search-photos waiting for the answer of RecognizeText, with no index
\* endpoint configured, so that searchOpenSearch rejects before any request
InitTokenize ==
  /\ OPENSEARCH_ENDPOINT = None
  /\ LEX_BOT_ID = Configured
  /\ LEX_BOT_ALIAS_ID = Configured
  /\ index = <<DocDog>>
  /\ NoEvent
  /\ lambda \in {"part_001", "lf2"}
  /\ q = Query(Some(Str_cats))
  /\ qpc = "lex"
  /\ resp = None
  /\ rawKeywords = <<>>
  /\ searchTerms = <<>>
  /\ response = None
  /\ lexCalls = 1
  /\ searchRequests = 0

NextTokenize == QLexRespondSlot \/ QSearchTerms \/ QSearchSend

\* search-photos from the answer of RecognizeText on, over the slot strings
SpecTokenize == InitTokenize /\ [][NextTokenize]_vars


(***************************************************************************)
(* Properties                                                              *)
(***************************************************************************)

Statuses(status) == {k \in 1..Len(results) : results[k].status = status}

\* C1: no failure of one record aborts the batch: when the ingestion handler
\* ends, it has returned a status list with exactly one entry per input
\* record, in input order.
C1_FailureNeverAbortsBatch ==
  ipc \in {"returned", "thrown"} =>
    /\ ipc = "returned"
    /\ Len(results) = Len(records)
    /\ \A k \in 1..Len(results) :
         DecodeKey(records[k].rawKey) = Some(results[k].key)

\* C2: the status of a record is SKIPPED_INVALID_IMAGE exactly when image
\* analysis reported an invalid image format, OK exactly when label detection,
\* the metadata read and the index write succeeded with a 2xx response, and
\* ERROR otherwise; each status depends on the record's own outcomes only.
C2_StatusReflectsOwnOutcome ==
  /\ Len(results) <= Len(outcomes)
  /\ \A k \in 1..Len(results) :
       LET o  == outcomes[k]
           st == results[k].status
       IN  /\ st \in {"OK", "SKIPPED_INVALID_IMAGE", "ERROR"}
           /\ (st = "SKIPPED_INVALID_IMAGE") <=> (o.detect = "invalid")
           /\ (st = "OK") <=>
                /\ o.detect = "ok"
                /\ o.head = "ok"
                /\ o.index = "response"
                /\ o.statusCode \in 200..299

\* a batch of three with one invalid image, one indexed photo and one photo
\* whose index write was answered 300
C2_Witness ==
  /\ ipc = "returned"
  /\ Len(records) = 3
  /\ Cardinality(Statuses("SKIPPED_INVALID_IMAGE")) = 1
  /\ Cardinality(Statuses("OK")) = 1
  /\ \E k \in Statuses("ERROR") :
       outcomes[k].index = "response" /\ outcomes[k].statusCode = 300

NotSearchIntent(r) ==
  \/ ~IsSome(r.sessionState)
  \/ ~IsSome(r.sessionState[1].intent)
  \/ r.sessionState[1].intent[1].name # SearchIntent

\* C3: when the RecognizeText response carries no intent, or an intent that
\* is not the search intent, keyword extraction returns the empty list
\* without an error and the request ends as a successful empty result.
C3_OtherIntentYieldsEmptyResult ==
  (IsSome(resp) /\ NotSearchIntent(resp[1])) =>
    /\ rawKeywords = <<>>
    /\ qpc \in {"keywords", "done"}
    /\ qpc = "done" => response = Some(Ok(<<>>))

PrimaryTokens(r) ==
  LET intent == r.sessionState[1].intent[1]
  IN  SlotTokens(SlotOf(intent, "keyword1")) \o SlotTokens(SlotOf(intent, "keyword2"))

LegacyTokens(r) ==
  SlotTokens(SlotOf(r.sessionState[1].intent[1], "keyword"))

\* C4: the legacy "keyword" slot contributes tokens if and only if keyword1
\* and keyword2 produced none; when they produced some, the keywords are
\* exactly their tokens, keyword1's before keyword2's.
C4_LegacySlotOnlyWhenPrimaryEmpty ==
  (qpc = "keywords" /\ ~NotSearchIntent(resp[1])) =>
    IF PrimaryTokens(resp[1]) # <<>>
    THEN rawKeywords = Dedup(PrimaryTokens(resp[1]))
    ELSE rawKeywords = Dedup(LegacyTokens(resp[1]))

BotConfigAbsent == LEX_BOT_ID = None \/ LEX_BOT_ALIAS_ID = None

FailedFast ==
  /\ lexCalls = 0
  /\ searchRequests = 0
  /\ qpc \in {"start", "done"}
  /\ qpc = "done" => (response[1].statusCode = 500 /\ IsSome(response[1].error))

\* C6 as stated: whenever the bot identifier or the bot alias identifier is
\* absent, the request sends nothing to Lex or to the index and ends with the
\* internal-server error response.
C6_AbsentBotConfigAlwaysFails ==
  (qpc # "idle" /\ BotConfigAbsent) => FailedFast

\* C6 as amended: the same, for every request whose query phrase is not
\* blank (a blank phrase is answered with an empty array before keyword
\* extraction starts).
C6_AbsentBotConfigFailsQuery ==
  (qpc # "idle" /\ BotConfigAbsent /\ ~IsBlankQuery(QueryOf(q))) => FailedFast

C6_Witness ==
  /\ qpc = "done"
  /\ LEX_BOT_ID = Configured
  /\ LEX_BOT_ALIAS_ID = None
  /\ ~IsBlankQuery(QueryOf(q))
  /\ response[1].statusCode = 500

UpperCaseLetters == {"A", "B", "C", "D", "G", "O", "S", "T", "Y"}

\* the position of the first occurrence of x in xs
FirstIndex(xs, x) == CHOOSE k \in 1..Len(xs) : xs[k] = x /\ \A j \in 1..(k - 1) : xs[j] # x

\* the lowercased names of the labels DetectLabels returned with a name
DetectedNames(Labels) ==
  IF IsSome(Labels)
  THEN {ToLowerCase(Labels[1][k].Name[1]) :
          k \in {j \in 1..Len(Labels[1]) : Truthy(Labels[1][j].Name)}}
  ELSE {}

\* C7: the merged label list has no duplicates, every entry is lowercase and
\* non-empty, the detected labels come first and the custom labels after
\* them, each at its first occurrence; with no label from either source the
\* list is empty and the document is still built.
C7_MergedLabels ==
  /\ ipc = "index" => IsSome(doc)
  /\ IsSome(doc) =>
       LET labels   == doc[1].labels
           source   == rekognitionLabels \o customLabels
           detected == DetectedNames(records[i].image.Labels)
       IN  /\ NoDuplicates(labels)
           /\ \A k \in 1..Len(labels) :
                /\ Len(labels[k]) > 0
                /\ \A j \in 1..Len(labels[k]) : labels[k][j] \notin UpperCaseLetters
           /\ SeqToSet(labels) = detected \cup SeqToSet(customLabels)
           /\ \A a, b \in 1..Len(labels) :
                a < b =>
                  /\ FirstIndex(source, labels[a]) < FirstIndex(source, labels[b])
                  /\ labels[b] \in detected => labels[a] \in detected

\* a detected label and a custom label collapsed into one entry, with a
\* custom label after the detected ones
C7_Witness ==
  /\ IsSome(doc)
  /\ Len(rekognitionLabels) = 2
  /\ Len(customLabels) = 2
  /\ Len(doc[1].labels) = 3
  /\ doc[1].labels[3] = customLabels[2]

\* C8: detected and custom labels are normalised alike, lowercased and
\* trimmed: no label of the document starts or ends with whitespace.
C8_LabelsTrimmed ==
  IsSome(doc) => \A k \in 1..Len(doc[1].labels) : Trim(doc[1].labels[k]) = doc[1].labels[k]

\* String.prototype.toLowerCase on a metadata key
KeyToLowerCase(k) ==
  CASE k = "CustomLabels" -> "customlabels"
    [] k = "Custom-Labels" -> "custom-labels"
    [] OTHER -> k

\* C9: a non-empty custom-labels value stored under any letter case of the
\* hyphenated or the contiguous key yields the labels it yields under the
\* lowercase key.
C9_KeyReadCaseInsensitively ==
  (IsSome(doc) /\ IsSome(records[i].Metadata)) =>
    LET metadata == records[i].Metadata[1]
    IN  \A k \in DOMAIN metadata :
          (/\ Cardinality(DOMAIN metadata) = 1
           /\ KeyToLowerCase(k) \in {"customlabels", "custom-labels"}
           /\ Len(metadata[k]) > 0) =>
            customLabels =
              CustomLabels(extractCustomLabelsFromMetadata(
                             Some("customlabels" :> metadata[k])))

\* the last n characters of w
Suffix(w, n) == SubSeq(w, Len(w) - n + 1, Len(w))

Without(w, n) == SubSeq(w, 1, Len(w) - n)

\* the variants the expansion rules give one keyword
Variants(w) ==
  {w}
    \cup (IF Suffix(w, 1) # <<"s">>
          THEN {w \o <<"s">>}
                 \cup (IF Suffix(w, 1) = <<"y">> /\ Len(w) > 1
                       THEN {Without(w, 1) \o <<"i", "e", "s">>}
                       ELSE {})
          ELSE {})
    \cup (IF Len(w) > 3
          THEN (IF Suffix(w, 3) = <<"i", "e", "s">> THEN {Without(w, 3) \o <<"y">>}
                ELSE IF Suffix(w, 2) = <<"e", "s">> THEN {Without(w, 2)}
                ELSE IF Suffix(w, 1) = <<"s">> THEN {Without(w, 1)}
                ELSE {})
          ELSE {})

\* C10: the expansion of a list of keywords is exactly the duplicate-free
\* set of the variants of its keywords; no other variant is produced.
C10_ExpansionIsExactlyTheVariants ==
  qpc \in {"searchcall", "search", "done"} =>
    /\ NoDuplicates(searchTerms)
    /\ SeqToSet(searchTerms) = UNION {Variants(rawKeywords[k]) : k \in 1..Len(rawKeywords)}

\* "babies" gave {babies, baby}
C10_Witness ==
  /\ qpc = "searchcall"
  /\ rawKeywords = <<Str_babies>>
  /\ SeqToSet(searchTerms) = {Str_babies, Str_baby}

\* the string Lex put in the slot the handler tokenizes
SlotString ==
  resp[1].sessionState[1].intent[1].slots[1][TokenizedSlot][1].value[1].interpretedValue[1]

Str_and == <<"a", "n", "d">>

Str_dogs == <<"d", "o", "g", "s">>

\* the word "and" standing alone at p: no letter, digit or underscore
\* touches it
StandaloneAndAt(s, p) ==
  /\ p >= 1
  /\ p + 2 <= Len(s)
  /\ <<s[p], s[p + 1], s[p + 2]>> = Str_and
  /\ (p > 1 => ~IsWordChar(s[p - 1]))
  /\ (p + 3 <= Len(s) => ~IsWordChar(s[p + 3]))

\* the character at k is a comma, whitespace, or part of a standalone "and"
Removed(s, k) ==
  \/ s[k] = ","
  \/ IsSpace(s[k])
  \/ \E p \in {k - 2, k - 1, k} : StandaloneAndAt(s, p)

\* a..b is a maximal run of characters that are kept
PieceAt(s, a, b) ==
  /\ a <= b
  /\ \A k \in a..b : ~Removed(s, k)
  /\ (a > 1 => Removed(s, a - 1))
  /\ (b < Len(s) => Removed(s, b + 1))

Pieces(s) ==
  {SubSeq(s, ab[1], ab[2]) :
     ab \in {xy \in (1..Len(s)) \X (1..Len(s)) : PieceAt(s, xy[1], xy[2])}}

\* where the piece t first starts in s
FirstAt(s, t) ==
  CHOOSE a \in 1..Len(s) :
    /\ PieceAt(s, a, a + Len(t) - 1)
    /\ SubSeq(s, a, a + Len(t) - 1) = t
    /\ \A b \in 1..(a - 1) :
         ~(PieceAt(s, b, b + Len(t) - 1) /\ SubSeq(s, b, b + Len(t) - 1) = t)

\* a..b is a word of s made of letters, digits and underscores only: a
\* maximal run of them between commas, whitespace and the ends of s
PlainWordAt(s, a, b) ==
  /\ a <= b
  /\ \A k \in a..b : IsWordChar(s[k])
  /\ (a > 1 => s[a - 1] = "," \/ IsSpace(s[a - 1]))
  /\ (b < Len(s) => s[b + 1] = "," \/ IsSpace(s[b + 1]))

\* C11: for every slot string the tokens are duplicate-free, non-empty,
\* lowercase and free of commas and whitespace; none is the word "and";
\* they are the pieces of the lowercased string left between commas,
\* whitespace and standalone "and"s, in the order they first occur; a word
\* that only contains "and" is kept whole; "cats and dogs" gives
\* ["cats", "dogs"].
C11_TokensOfSlotString ==
  (IsSome(resp) /\ qpc # "lex") =>
    LET lowered == ToLowerCase(SlotString)
        tokens == rawKeywords
    IN  /\ NoDuplicates(tokens)
        /\ \A k \in 1..Len(tokens) :
             /\ Len(tokens[k]) > 0
             /\ tokens[k] # Str_and
             /\ \A c \in 1..Len(tokens[k]) :
                  /\ tokens[k][c] # ","
                  /\ ~IsSpace(tokens[k][c])
                  /\ tokens[k][c] \notin UpperCaseLetters
        /\ SeqToSet(tokens) = Pieces(lowered)
        /\ \A x, y \in 1..Len(tokens) :
             x < y => FirstAt(lowered, tokens[x]) < FirstAt(lowered, tokens[y])
        /\ \A a, b \in 1..Len(lowered) :
             (PlainWordAt(lowered, a, b) /\ SubSeq(lowered, a, b) # Str_and)
               => SubSeq(lowered, a, b) \in SeqToSet(tokens)
        /\ (lowered = ToLowerCase(Str_cats_and_dogs) => tokens = <<Str_cats, Str_dogs>>)

\* "Sandy, and\tandroid" gave ["sandy", "android"]
C11_Witness ==
  /\ IsSome(resp)
  /\ qpc = "keywords"
  /\ SlotString = Str_Sandy_and_android
  /\ rawKeywords = <<Str_sandy, Str_android>>

\* C12: after any sequence of ingestion events the index never holds more
\* than one document for the same (bucket, objectKey), also when the upload
\* event of an object is delivered more than once or its key is uploaded
\* again.
C12_OneDocumentPerObject ==
  \A a, b \in 1..Len(index) :
    (index[a].bucket = index[b].bucket /\ index[a].objectKey = index[b].objectKey)
      => a = b

====
